---- MODULE Spec2Model ----
(***************************************************************************)
(* A model of the Shopify store scraper (src/scraper.py): one scrape       *)
(* session of ShopifyScraper against a remote store.  The store's answers  *)
(* are fixed when the session starts; the session's fetches, loops and     *)
(* extractors are translated from the Python source.  Strings are TLA+     *)
(* strings, processed character by character where the code does so.       *)
(***************************************************************************)
EXTENDS Integers, Sequences, FiniteSets, TLC

\* ------------------------------------------------------------------ bounds
\* Number of catalog pages the modelled store can answer; the loop of
\* get_product_catalog is capped there (the code itself has no cap).
MaxPages == 3
\* Number of top-level elements of a fetched text page (about, policies).
MaxTextElems == 2
\* Number of sibling elements of a fetched FAQ page.
MaxFaqElems == 3
\* Number of link elements of the homepage.
MaxLinks == 3
\* Number of text fragments the homepage text is made of.
MaxTokens == 3

\* --------------------------------------------------------- string helpers
Char(s, i) == SubSeq(s, i, i)

\* Python: k in s
Contains(s, k) ==
    \E i \in 1..(Len(s) - Len(k) + 1) : SubSeq(s, i, i + Len(k) - 1) = k

\* Python: s.startswith(p)
StartsWith(s, p) == Len(s) >= Len(p) /\ SubSeq(s, 1, Len(p)) = p

\* Python: s.find(k, from), 1-based, 0 when absent
FindFrom(s, k, from) ==
    LET hits == {i \in from..(Len(s) - Len(k) + 1) : SubSeq(s, i, i + Len(k) - 1) = k}
    IN IF hits = {} THEN 0 ELSE CHOOSE i \in hits : \A j \in hits : i <= j

RECURSIVE RStripSlash(_)
\* Python: s.rstrip('/')
RStripSlash(s) ==
    IF Len(s) > 0 /\ Char(s, Len(s)) = "/" THEN RStripSlash(SubSeq(s, 1, Len(s) - 1)) ELSE s

Whitespace == {" ", "\n", "\t", "\r"}

RECURSIVE LStrip(_)
LStrip(s) == IF Len(s) > 0 /\ Char(s, 1) \in Whitespace THEN LStrip(Tail(s)) ELSE s

RECURSIVE RStrip(_)
RStrip(s) ==
    IF Len(s) > 0 /\ Char(s, Len(s)) \in Whitespace
    THEN RStrip(SubSeq(s, 1, Len(s) - 1)) ELSE s

\* Python: s.strip()
Strip(s) == RStrip(LStrip(s))

RECURSIVE Split(_, _)
\* Python: s.split(sep)
Split(s, sep) ==
    LET i == FindFrom(s, sep, 1)
    IN IF i = 0 THEN <<s>>
       ELSE <<SubSeq(s, 1, i - 1)>> \o Split(SubSeq(s, i + Len(sep), Len(s)), sep)

\* Python: s.splitlines() (no piece for the end after a final line break)
SplitLines(s) ==
    LET parts == Split(s, "\n")
    IN IF parts[Len(parts)] = "" THEN SubSeq(parts, 1, Len(parts) - 1) ELSE parts

RECURSIVE Join(_, _)
\* Python: sep.join(parts)
Join(parts, sep) ==
    IF parts = <<>> THEN ""
    ELSE IF Len(parts) = 1 THEN parts[1]
    ELSE parts[1] \o sep \o Join(Tail(parts), sep)

UpperLetters == "ABCDEFGHIJKLMNOPQRSTUVWXYZ"
LowerLetters == "abcdefghijklmnopqrstuvwxyz"
DigitChars == "0123456789"

CharSet(s) == {Char(s, i) : i \in 1..Len(s)}

LowerChar(c) ==
    IF c \in CharSet(UpperLetters)
    THEN Char(LowerLetters, FindFrom(UpperLetters, c, 1)) ELSE c

UpperChar(c) ==
    IF c \in CharSet(LowerLetters)
    THEN Char(UpperLetters, FindFrom(LowerLetters, c, 1)) ELSE c

RECURSIVE TitleFrom(_, _)
TitleFrom(s, in_word) ==
    IF s = "" THEN ""
    ELSE LET c == Char(s, 1)
             cased == c \in (CharSet(UpperLetters) \cup CharSet(LowerLetters))
         IN (IF in_word THEN LowerChar(c) ELSE UpperChar(c)) \o TitleFrom(Tail(s), cased)

\* Python: s.title()
Title(s) == TitleFrom(s, FALSE)

RECURSIVE Replace(_, _, _)
\* Python: s.replace(old, new)
Replace(s, old, new) ==
    LET i == FindFrom(s, old, 1)
    IN IF i = 0 THEN s
       ELSE SubSeq(s, 1, i - 1) \o new \o Replace(SubSeq(s, i + Len(old), Len(s)), old, new)

RECURSIVE Lower(_)
\* Python: s.lower()
Lower(s) == IF s = "" THEN "" ELSE LowerChar(Char(s, 1)) \o Lower(Tail(s))

\* The sequences over S of length at most n.
SeqsUpTo(S, n) == UNION {[1..k -> S] : k \in 0..n}

RECURSIVE Concat(_)
\* The concatenation of a sequence of sequences (list.extend, page after page).
Concat(ss) == IF ss = <<>> THEN <<>> ELSE Head(ss) \o Concat(Tail(ss))

\* ------------------------------------------------------------------ state
VARIABLES
    store,          \* the remote store: what each URL answers (fixed for the session)
    raw_url,        \* the base_url argument of ShopifyScraper.__init__
    base_url,       \* self.base_url
    homepage_soup,  \* self.homepage_soup: [ok |-> FALSE] is None
    pc,             \* where the session is: "new", then run_all's positions
    fetched,        \* every URL requested through self.session.get, in order
    page,           \* get_product_catalog: page
    all_products,   \* get_product_catalog: all_products
    path_i,         \* get_page_text / get_faqs: index of the candidate path being tried
    faqs,           \* get_faqs: faqs
    result,         \* run_all's dictionary, filled in evaluation order
    flat_data       \* scrape_store_csv: the rows flatten_data_for_csv returned

vars == <<store, raw_url, base_url, homepage_soup, pc, fetched, page, all_products,
          path_i, faqs, result, flat_data>>

\* ------------------------------------------------------- responses, store
\* What a GET can end as.  A transport error and a 4xx/5xx status both raise a
\* requests RequestException (raise_for_status); a 2xx answer carries a body.
TransportError == [kind |-> "transport_error"]
HttpError == [kind |-> "http_error"]

Failed(resp) == resp.kind \in {"transport_error", "http_error"}

\* Bodies of /products.json: not JSON at all, JSON that is not an object (a
\* top-level array), an object without the "products" key, an object with it.
NotJson == [kind |-> "not_json"]
JsonNonObject == [kind |-> "json_non_object"]
JsonNoProducts == [kind |-> "json_object", has_products |-> FALSE, products |-> <<>>]
JsonProducts(ps) == [kind |-> "json_object", has_products |-> TRUE, products |-> ps]

ProductLists == {<<>>, <<"p1", "p2">>, <<"p3">>}

CatalogResponses ==
    {TransportError, HttpError, NotJson, JsonNonObject, JsonNoProducts}
        \cup {JsonProducts(ps) : ps \in ProductLists}

Catalogs == [1..MaxPages -> CatalogResponses]

NoneSoup == [ok |-> FALSE]
Soup(doc) == [ok |-> TRUE, doc |-> doc]

\* _fetch_page: the parsed document, or None when the GET raised.
FetchPage(resp) == IF Failed(resp) THEN NoneSoup ELSE Soup(resp.doc)

\* __init__: scheme defaulted to https, trailing slashes removed.
NormalizeBaseUrl(url) ==
    LET u == IF StartsWith(url, "http://") \/ StartsWith(url, "https://")
             THEN url ELSE "https://" \o url
    IN RStripSlash(u)

\* ---------------------------------------------------------------- urljoin
SchemeChars ==
    {"a", "b", "c", "d", "e", "f", "g", "h", "i", "j", "k", "l", "m", "n", "o", "p", "q",
     "r", "s", "t", "u", "v", "w", "x", "y", "z", "0", "1", "2", "3", "4", "5", "6", "7",
     "8", "9", "+", "-", "."}

\* Whether a reference carries its own scheme ("https:", "mailto:").
HasScheme(ref) ==
    LET c == FindFrom(ref, ":", 1)
    IN c > 1 /\ \A i \in 1..(c - 1) : Char(ref, i) \in SchemeChars

\* scheme://netloc of an absolute URL.
Origin(url) ==
    LET a == FindFrom(url, "://", 1)
        slash == FindFrom(url, "/", a + 3)
    IN IF slash = 0 THEN url ELSE SubSeq(url, 1, slash - 1)

\* The path of an absolute URL up to and including its last "/".
RECURSIVE DirOf(_)
DirOf(path) ==
    IF path = "" THEN "/"
    ELSE IF Char(path, Len(path)) = "/" THEN path
    ELSE DirOf(SubSeq(path, 1, Len(path) - 1))

\* urllib.parse.urljoin(base, ref), for references without dot segments and a
\* base without query or fragment.
UrlJoin(base, ref) ==
    IF ref = "" THEN base
    ELSE IF HasScheme(ref) THEN ref
    ELSE IF StartsWith(ref, "//") THEN SubSeq(base, 1, FindFrom(base, "://", 1)) \o ref
    ELSE IF StartsWith(ref, "/") THEN Origin(base) \o ref
    ELSE IF StartsWith(ref, "#") \/ StartsWith(ref, "?") THEN base \o ref
    ELSE Origin(base)
            \o DirOf(SubSeq(base, Len(Origin(base)) + 1, Len(base))) \o ref

\* -------------------------------------------------------- __init__, run_all
\* Lines 13-21: the base URL is normalized and the homepage fetched, once.
Construct ==
    /\ pc = "new"
    /\ base_url' = NormalizeBaseUrl(raw_url)
    /\ homepage_soup' = FetchPage(store.home)
    /\ fetched' = Append(fetched, NormalizeBaseUrl(raw_url))
    /\ pc' = "run_all"
    /\ UNCHANGED <<store, flat_data, raw_url, page, all_products, path_i, faqs, result>>

HomepageError == [error |-> "Could not fetch the store's homepage. Please check the URL."]

\* A gate that lets every session through.
HomepageNeverMissing(soup) == FALSE

\* Line 300: if not self.homepage_soup
HomepageMissing(soup) == ~soup.ok

\* A run_all that fetches the homepage again instead of using the cached
\* document.
RunAllRefetch ==
    /\ pc = "run_all"
    /\ fetched' = Append(fetched, base_url)
    /\ IF FetchPage(store.home).ok
       THEN pc' = "product_catalog" /\ UNCHANGED result
       ELSE result' = HomepageError /\ pc' = "done"
    /\ UNCHANGED <<store, flat_data, raw_url, base_url, homepage_soup, page, all_products,
                   path_i, faqs>>

\* Lines 300-303: run_all returns the error dictionary, or starts evaluating
\* the dictionary of the ten fields.
RunAll ==
    /\ pc = "run_all"
    /\ IF HomepageMissing(homepage_soup)
       THEN /\ result' = HomepageError
            /\ pc' = "done"
       ELSE /\ pc' = "product_catalog"
            /\ UNCHANGED result
    /\ UNCHANGED <<store, flat_data, raw_url, base_url, homepage_soup, fetched, page, all_products,
                   path_i, faqs>>

\* ------------------------------------------------------ get_product_catalog
ProductsJsonUrl(base, n) == base \o "/products.json?limit=250&page=" \o ToString(n)

\* products_data.get('products', [])
ProductsOf(resp) == IF resp.has_products THEN resp.products ELSE <<>>

\* A loop that goes on after an empty page (continue where the code breaks).
CatalogOutcomeNoEmptyBreak(resp) ==
    IF Failed(resp) \/ resp.kind = "not_json" THEN "break"
    ELSE IF resp.kind = "json_non_object" THEN "raise"
    ELSE "extend"

\* A loop without the except clause for json.JSONDecodeError.
CatalogOutcomeNoDecodeCatch(resp) ==
    IF Failed(resp) THEN "break"
    ELSE IF resp.kind \in {"not_json", "json_non_object"} THEN "raise"
    ELSE IF ProductsOf(resp) = <<>> THEN "break"
    ELSE "extend"

\* One iteration of the while loop: request page `page`, then stop (break and
\* return all_products), raise, or extend and go on to the next page.
CatalogOutcome(resp) ==
    IF Failed(resp) \/ resp.kind = "not_json" THEN "break"
    ELSE IF resp.kind = "json_non_object" THEN "raise"
    ELSE IF ProductsOf(resp) = <<>> THEN "break"
    ELSE "extend"

CatalogStep ==
    /\ pc = "product_catalog"
    /\ page <= MaxPages
    /\ LET resp == store.catalog[page]
           out == CatalogOutcome(resp)
       IN /\ fetched' = Append(fetched, ProductsJsonUrl(base_url, page))
          /\ IF out = "extend"
             THEN /\ all_products' = all_products \o ProductsOf(resp)
                  /\ page' = page + 1
                  /\ UNCHANGED <<pc, result>>
             ELSE IF out = "break"
             THEN /\ result' = result @@ ("product_catalog" :> all_products)
                  /\ pc' = "hero_products"
                  /\ UNCHANGED <<page, all_products>>
             ELSE /\ pc' = "raised"
                  /\ UNCHANGED <<page, all_products, result>>
    /\ UNCHANGED <<store, flat_data, raw_url, base_url, homepage_soup, path_i, faqs>>

\* The order in which run_all evaluates its dictionary.
FieldOrder ==
    <<"product_catalog", "hero_products", "social_media_links", "contact_info",
      "important_links", "about_us_text", "privacy_policy", "return_policy",
      "refund_policy", "faq_page">>

NextField(f) ==
    LET i == CHOOSE k \in 1..Len(FieldOrder) : FieldOrder[k] = f
    IN IF i = Len(FieldOrder) THEN "done" ELSE FieldOrder[i + 1]

\* ------------------------------------------------------------ the homepage
\* The homepage document: the text outside its link elements (body) and its
\* link elements in document order.  A link element has a tag name, an href
\* attribute or none, its visible text, its classes, the classes of its
\* ancestors (outermost first), and the nested elements link.find(class_=...)
\* would find.
Link(tag, has_href, href, text) ==
    [tag |-> tag, has_href |-> has_href, href |-> href, text |-> text,
     classes |-> {}, inside |-> <<>>,
     title_tag |-> [found |-> FALSE, text |-> ""],
     price_tag |-> [found |-> FALSE, text |-> ""]]

Anchor(href, text) == Link("a", TRUE, href, text)

\* homepage_soup.find_all('a', href=True)
AnchorsWithHref(doc) == SelectSeq(doc.links, LAMBDA e : e.tag = "a" /\ e.has_href)

\* homepage_soup.get_text()
HomepageText(doc) == doc.body \o Join([i \in 1..Len(doc.links) |-> doc.links[i].text], "")

HomepageUnavailable == [error |-> "Homepage not available."]

\* -------------------------------------------------------- get_hero_products
\* product_link_selectors, in list order: whether selector k selects element e.
Selects(k, e) ==
    CASE k = 1 -> e.tag = "a" /\ e.has_href /\ Contains(e.href, "/products/")
      [] k = 2 -> "product-card__link" \in e.classes
      [] k = 3 -> "grid-view-item__link" \in e.classes
      [] k = 4 -> e.tag = "a" /\ \E i \in 1..Len(e.inside) : e.inside[i] = "product-item__info"
      [] k = 5 -> e.tag = "a" /\ \E i, j \in 1..Len(e.inside) :
                        i < j /\ e.inside[i] = "grid__item" /\ e.inside[j] = "product-info"

NumSelectors == 5

\* Lines 101-102: the elements the two loops visit, in the order they do:
\* selector by selector, each selector's matches in document order.
HeroCandidates(doc) ==
    Concat([k \in 1..NumSelectors |-> SelectSeq(doc.links, LAMBDA e : Selects(k, e))])

\* Line 105: urljoin(self.base_url, href).split('?')[0]
HeroUrl(base, href) == Split(UrlJoin(base, href), "?")[1]

\* Line 107: re.search(r'/products/([^/?#]+)', full_url): group 1 of the
\* leftmost match, "" when there is none.
HandleOf(full_url) ==
    LET stop == {"/", "?", "#"}
        starts == {i \in 1..Len(full_url) :
                     /\ i + 10 <= Len(full_url)
                     /\ SubSeq(full_url, i, i + 9) = "/products/"
                     /\ Char(full_url, i + 10) \notin stop}
        i0 == CHOOSE i \in starts : \A j \in starts : i <= j
        rest == SubSeq(full_url, i0 + 10, Len(full_url))
        ends == {j \in 1..Len(rest) : Char(rest, j) \in stop}
    IN IF starts = {} THEN ""
       ELSE IF ends = {} THEN rest
       ELSE SubSeq(rest, 1, (CHOOSE j \in ends : \A m \in ends : j <= m) - 1)

\* Line 104: if href and '/products/' in href; line 108: if match.
HasHandle(link, base) ==
    /\ link.has_href
    /\ link.href # ""
    /\ Contains(link.href, "/products/")
    /\ HandleOf(HeroUrl(base, link.href)) # ""

\* Lines 111-122: the entry a link makes.
HeroEntry(link, base) ==
    LET full_url == HeroUrl(base, link.href)
        handle == HandleOf(full_url)
    IN [title |-> IF link.title_tag.found THEN Strip(link.title_tag.text)
                  ELSE Title(Replace(handle, "-", " ")),
        url |-> full_url,
        handle |-> handle,
        price |-> IF link.price_tag.found THEN Strip(link.price_tag.text) ELSE "N/A"]

\* A handle test that never finds the handle.
NeverSeen(handle, seen_product_handles) == FALSE

\* Line 110: handle in seen_product_handles
AlreadySeen(handle, seen_product_handles) == handle \in seen_product_handles

RECURSIVE HeroScan(_, _, _, _)
\* Lines 102-123 over the visited elements.
HeroScan(cands, base, seen_product_handles, hero_products) ==
    IF cands = <<>> THEN hero_products
    ELSE LET link == Head(cands)
             handle == HandleOf(HeroUrl(base, link.href))
         IN IF HasHandle(link, base) /\ ~AlreadySeen(handle, seen_product_handles)
            THEN HeroScan(Tail(cands), base, seen_product_handles \cup {handle},
                          Append(hero_products, HeroEntry(link, base)))
            ELSE HeroScan(Tail(cands), base, seen_product_handles, hero_products)

GetHeroProducts(soup, base) ==
    IF ~soup.ok THEN <<>> ELSE HeroScan(HeroCandidates(soup.doc), base, {}, <<>>)

HeroProductsStep ==
    /\ pc = "hero_products"
    /\ result' = result @@ ("hero_products" :> GetHeroProducts(homepage_soup, base_url))
    /\ pc' = NextField(pc)
    /\ UNCHANGED <<store, flat_data, raw_url, base_url, homepage_soup, fetched, page, all_products,
                   path_i, faqs>>

\* --------------------------------------------------- get_social_media_links
\* social_platforms, in the order of the dictionary literal.
SocialPlatforms ==
    <<[platform |-> "facebook", keywords |-> <<"facebook.com">>],
      [platform |-> "twitter", keywords |-> <<"twitter.com", "x.com">>],
      [platform |-> "instagram", keywords |-> <<"instagram.com">>],
      [platform |-> "pinterest", keywords |-> <<"pinterest.com">>],
      [platform |-> "youtube", keywords |-> <<"youtube.com">>],
      [platform |-> "linkedin", keywords |-> <<"linkedin.com">>],
      [platform |-> "tiktok", keywords |-> <<"tiktok.com">>],
      [platform |-> "snapchat", keywords |-> <<"snapchat.com">>],
      [platform |-> "whatsapp", keywords |-> <<"wa.me">>]>>

RECURSIVE SocialPlatformsFromOverwrite(_, _, _)
\* A loop without the "platform not in social_links" test: a later anchor
\* replaces the link recorded for a platform.
SocialPlatformsFromOverwrite(k, href, social_links) ==
    IF k > Len(SocialPlatforms) THEN social_links
    ELSE LET p == SocialPlatforms[k]
             hit == \E w \in 1..Len(p.keywords) : Contains(href, p.keywords[w])
         IN IF hit THEN SocialPlatformsFromOverwrite(k + 1, href,
                            (p.platform :> href) @@ social_links)
            ELSE SocialPlatformsFromOverwrite(k + 1, href, social_links)

RECURSIVE SocialPlatformsFrom(_, _, _)
\* Lines 221-226 for one link: the platforms from entry k on that are not yet
\* recorded and have a keyword in href get href.
SocialPlatformsFrom(k, href, social_links) ==
    IF k > Len(SocialPlatforms) THEN social_links
    ELSE LET p == SocialPlatforms[k]
             hit == /\ p.platform \notin DOMAIN social_links
                    /\ \E w \in 1..Len(p.keywords) : Contains(href, p.keywords[w])
         IN IF hit THEN SocialPlatformsFrom(k + 1, href, social_links @@ (p.platform :> href))
            ELSE SocialPlatformsFrom(k + 1, href, social_links)

RECURSIVE SocialScan(_, _)
\* Lines 219-226: the loop over the anchors.
SocialScan(links, social_links) ==
    IF links = <<>> THEN social_links
    ELSE SocialScan(Tail(links),
                    SocialPlatformsFrom(1, Lower(Head(links).href), social_links))

NoSocialLinks == [status |-> "No social media links found."]

\* A detector without the fallback to the sentinel.
GetSocialMediaLinksNoSentinel(soup) ==
    IF ~soup.ok THEN HomepageUnavailable ELSE SocialScan(AnchorsWithHref(soup.doc), <<>>)

GetSocialMediaLinks(soup) ==
    IF ~soup.ok THEN HomepageUnavailable
    ELSE LET social_links == SocialScan(AnchorsWithHref(soup.doc), <<>>)
         IN IF DOMAIN social_links # {} THEN social_links ELSE NoSocialLinks

SocialLinksStep ==
    /\ pc = "social_media_links"
    /\ result' = result @@ ("social_media_links" :> GetSocialMediaLinks(homepage_soup))
    /\ pc' = NextField(pc)
    /\ UNCHANGED <<store, flat_data, raw_url, base_url, homepage_soup, fetched, page, all_products,
                   path_i, faqs>>

\* --------------------------------------------------------- get_contact_info
Letters == CharSet(UpperLetters) \cup CharSet(LowerLetters)
Digits == CharSet(DigitChars)
EmailLocalChars == Letters \cup Digits \cup {".", "_", "%", "+", "-"}
EmailDomainChars == Letters \cup Digits \cup {".", "-"}
PhoneSeparators == Whitespace \cup {"-", "."}

RECURSIVE RunEnd(_, _, _)
\* The last position of the longest run of characters of class cs that starts
\* at position i (i - 1 when there is none): a greedy cs*.
RunEnd(s, i, cs) ==
    IF i <= Len(s) /\ Char(s, i) \in cs THEN RunEnd(s, i + 1, cs) ELSE i - 1

\* Line 238: the end of the match of
\*   [a-zA-Z0-9._%+-]+@[a-zA-Z0-9.-]+\.[a-zA-Z]{2,}
\* that starts at position i, 0 when there is none.  The local part is the
\* whole run before the "@"; the domain backtracks to its last "." that two
\* letters follow; the top-level domain is the whole run of letters.
EmailEndAt(s, i) ==
    LET j == RunEnd(s, i, EmailLocalChars)
        d == RunEnd(s, j + 2, EmailDomainChars)
        dots == {k \in (j + 3)..d :
                    /\ Char(s, k) = "."
                    /\ RunEnd(s, k + 1, Letters) >= k + 2}
    IN IF j < i \/ j + 1 > Len(s) \/ Char(s, j + 1) # "@" \/ dots = {} THEN 0
       ELSE RunEnd(s, (CHOOSE k \in dots : \A m \in dots : m <= k) + 1, Letters)

RECURSIVE EmailFindAll(_, _)
\* re.findall of the email pattern from position i on: the matches, leftmost
\* first, not overlapping.
EmailFindAll(s, i) ==
    IF i > Len(s) THEN <<>>
    ELSE LET e == EmailEndAt(s, i)
         IN IF e = 0 THEN EmailFindAll(s, i + 1)
            ELSE <<SubSeq(s, i, e)>> \o EmailFindAll(s, e + 1)

\* \d{n} at position i.
DigitsAt(s, i, n) == i + n - 1 <= Len(s) /\ \A k \in i..(i + n - 1) : Char(s, k) \in Digits

\* The ways the optional prefix (?:(?:\+|0{0,2})91[\s-]?)? can match, in the
\* order the regex engine tries them; the last is the prefix left out.
PhonePrefixes ==
    <<[lit |-> "+91", sep |-> TRUE], [lit |-> "+91", sep |-> FALSE],
      [lit |-> "0091", sep |-> TRUE], [lit |-> "0091", sep |-> FALSE],
      [lit |-> "091", sep |-> TRUE], [lit |-> "091", sep |-> FALSE],
      [lit |-> "91", sep |-> TRUE], [lit |-> "91", sep |-> FALSE],
      [lit |-> "", sep |-> FALSE]>>

\* Where group 1, the ten digits, starts when prefix choice c matches at i (0: no match).
PrefixedDigitsAt(s, i, c) ==
    LET g == i + Len(c.lit) + (IF c.sep THEN 1 ELSE 0)
    IN IF /\ i + Len(c.lit) - 1 <= Len(s)
          /\ SubSeq(s, i, i + Len(c.lit) - 1) = c.lit
          /\ c.sep => (g - 1 <= Len(s) /\ Char(s, g - 1) \in (Whitespace \cup {"-"}))
          /\ DigitsAt(s, g, 10)
       THEN g ELSE 0

\* The second branch, (?:\d{3}[-.\s]?){2}\d{4}, at position i: the end of the
\* match, 0 when there is none.
GroupedDigitsEndAt(s, i) ==
    LET a == IF DigitsAt(s, i, 3)
             THEN (IF i + 3 <= Len(s) /\ Char(s, i + 3) \in PhoneSeparators THEN i + 4 ELSE i + 3)
             ELSE 0
        b == IF a > 0 /\ DigitsAt(s, a, 3)
             THEN (IF a + 3 <= Len(s) /\ Char(s, a + 3) \in PhoneSeparators THEN a + 4 ELSE a + 3)
             ELSE 0
    IN IF b > 0 /\ DigitsAt(s, b, 4) THEN b + 3 ELSE 0

\* Lines 241-243: the match of the phone pattern at position i: the whole match
\* and what group 1 captured ("" when the second branch matched: the group
\* took no part), or no match.
PhoneMatchAt(s, i) ==
    LET tries == {c \in 1..Len(PhonePrefixes) : PrefixedDigitsAt(s, i, PhonePrefixes[c]) > 0}
        g == PrefixedDigitsAt(s, i, PhonePrefixes[CHOOSE c \in tries : \A m \in tries : c <= m])
        e == GroupedDigitsEndAt(s, i)
    IN IF tries # {}
       THEN [matched |-> TRUE, last |-> g + 9, whole |-> SubSeq(s, i, g + 9),
             group |-> SubSeq(s, g, g + 9)]
       ELSE IF e > 0
       THEN [matched |-> TRUE, last |-> e, whole |-> SubSeq(s, i, e), group |-> ""]
       ELSE [matched |-> FALSE, last |-> 0, whole |-> "", group |-> ""]

RECURSIVE PhoneMatches(_, _)
\* The matches of the phone pattern from position i on, leftmost first, not
\* overlapping.
PhoneMatches(s, i) ==
    IF i > Len(s) THEN <<>>
    ELSE LET m == PhoneMatchAt(s, i)
         IN IF ~m.matched THEN PhoneMatches(s, i + 1)
            ELSE <<m>> \o PhoneMatches(s, m.last + 1)

\* A findall that gives the whole match whichever branch matched.
PhoneFindAllWholeMatch(s) ==
    LET ms == PhoneMatches(s, 1) IN [k \in 1..Len(ms) |-> ms[k].whole]

\* re.findall with one capturing group: group 1 of every match.
PhoneFindAll(s) ==
    LET ms == PhoneMatches(s, 1) IN [k \in 1..Len(ms) |-> ms[k].group]

RECURSIVE KeepChars(_, _)
KeepChars(s, cs) ==
    IF s = "" THEN ""
    ELSE (IF Char(s, 1) \in cs THEN Char(s, 1) ELSE "") \o KeepChars(Tail(s), cs)

\* Line 252: re.sub(r'[^\d+]', '', phone)
CleanPhone(phone) == KeepChars(phone, Digits \cup {"+"})

\* Line 254: at least 7 characters, all digits or starting with "+".
ValidPhone(cleaned) ==
    /\ Len(cleaned) >= 7
    /\ (\A k \in 1..Len(cleaned) : Char(cleaned, k) \in Digits) \/ StartsWith(cleaned, "+")

\* Lines 246-255
CleanedPhones(text) ==
    LET cleaned == [k \in 1..Len(PhoneFindAll(text)) |-> CleanPhone(PhoneFindAll(text)[k])]
    IN SelectSeq(cleaned, ValidPhone)

\* The lists with exactly the elements of S, each once.
Orderings(S) ==
    {q \in [1..Cardinality(S) -> S] : \A i, j \in 1..Cardinality(S) : i # j => q[i] # q[j]}

\* A list left as it is, duplicates included.
ListKeepDuplicates(items) == {items}

\* Lines 258-259: list(set(items)): the elements once each, in an order the
\* code does not fix (string hashing differs from run to run).
ListOfSet(items) == Orderings({items[k] : k \in 1..Len(items)})

NotFoundList == <<"Not found.">>

ContactInfoStep ==
    /\ pc = "contact_info"
    /\ IF ~homepage_soup.ok
       THEN result' = result @@ ("contact_info" :> HomepageUnavailable)
       ELSE LET text_content == HomepageText(homepage_soup.doc)
            IN \E emails \in ListOfSet(EmailFindAll(text_content, 1)),
                  cleaned_phones \in ListOfSet(CleanedPhones(text_content)) :
                    result' = result @@ ("contact_info" :>
                        [emails |-> IF emails # <<>> THEN emails ELSE NotFoundList,
                         phone_numbers |->
                            IF cleaned_phones # <<>> THEN cleaned_phones ELSE NotFoundList])
    /\ pc' = NextField(pc)
    /\ UNCHANGED <<store, flat_data, raw_url, base_url, homepage_soup, fetched, page, all_products,
                   path_i, faqs>>

\* ------------------------------------------------------ get_important_links
\* link_keywords, in the order of the dictionary literal.
LinkKeywords ==
    <<[key |-> "contact_us", keywords |-> <<"contact", "support", "help">>],
      [key |-> "order_tracking",
       keywords |-> <<"track order", "order status", "my orders", "tracking">>],
      [key |-> "blog", keywords |-> <<"blog", "news", "articles">>],
      [key |-> "shipping_policy", keywords |-> <<"shipping policy", "delivery">>],
      [key |-> "privacy_policy_link", keywords |-> <<"privacy policy">>],
      [key |-> "refund_policy_link",
       keywords |-> <<"refund policy", "return policy", "returns">>],
      [key |-> "terms_of_service",
       keywords |-> <<"terms of service", "terms & conditions">>]>>

\* Lines 288-291: whether one of the keywords is in the link's text or href.
LinkMatches(link, keywords) ==
    \E k \in 1..Len(keywords) :
        \/ Contains(Lower(Strip(link.text)), keywords[k])
        \/ Contains(Lower(link.href), keywords[k])

RECURSIVE ScanLinks(_, _, _, _)
\* Lines 287-294, the loop over all_links for one key: every matching link
\* assigns important_links[key]; the break at line 294 leaves the loop over the
\* keywords only, so the scan goes on with the next link.
ScanLinks(links, keywords, base, found) ==
    IF links = <<>> THEN found
    ELSE ScanLinks(Tail(links), keywords, base,
                   IF LinkMatches(Head(links), keywords)
                   THEN <<UrlJoin(base, Lower(Head(links).href))>>
                   ELSE found)

RECURSIVE ImportantLinksFrom(_, _, _)
\* Lines 285-294: the loop over link_keywords from entry k on.
ImportantLinksFrom(k, links, base) ==
    IF k > Len(LinkKeywords) THEN <<>>
    ELSE LET found == ScanLinks(links, LinkKeywords[k].keywords, base, <<>>)
             rest == ImportantLinksFrom(k + 1, links, base)
         IN IF found = <<>> THEN rest ELSE (LinkKeywords[k].key :> found[1]) @@ rest

NoImportantLinks == [status |-> "No important links found."]

GetImportantLinks(soup, base) ==
    IF ~soup.ok THEN HomepageUnavailable
    ELSE LET important_links == ImportantLinksFrom(1, AnchorsWithHref(soup.doc), base)
         IN IF DOMAIN important_links # {} THEN important_links ELSE NoImportantLinks

ImportantLinksStep ==
    /\ pc = "important_links"
    /\ result' = result @@ ("important_links" :> GetImportantLinks(homepage_soup, base_url))
    /\ pc' = NextField(pc)
    /\ UNCHANGED <<store, flat_data, raw_url, base_url, homepage_soup, fetched, page, all_products,
                   path_i, faqs>>

\* ------------------------------------------------------- _get_text_from_url
\* A 2xx answer with an HTML body: the parsed document is the sequence of its
\* top-level elements, each with its tag name and its text.
Html(doc) == [kind |-> "ok", doc |-> doc]

RemovedTags == {"script", "style", "nav", "footer", "header"}

\* soup.get_text(): the text of the elements, in document order.
GetText(elems) == Join([i \in 1..Len(elems) |-> elems[i].text], "")

\* Lines 43-52: drop the non-content subtrees, strip every line, split on
\* double spaces, strip again, drop the blanks, join with line breaks.
NormalizedText(doc) ==
    LET kept == SelectSeq(doc, LAMBDA e : e.tag \notin RemovedTags)
        raw == SplitLines(GetText(kept))
        lines == [i \in 1..Len(raw) |-> Strip(raw[i])]
        phrases(line) == LET ps == Split(line, "  ") IN [j \in 1..Len(ps) |-> Strip(ps[j])]
        chunks == Concat([i \in 1..Len(lines) |-> phrases(lines[i])])
    IN Join(SelectSeq(chunks, LAMBDA c : c # ""), "\n")

CouldNotParse == "Not found or could not parse."
NotFound == "Not found."

GetTextFromUrl(resp) ==
    LET soup == FetchPage(resp)
    IN IF soup.ok THEN NormalizedText(soup.doc) ELSE CouldNotParse

\* ------------------------------------------------------------ get_page_text
\* run_all's candidate paths, per text field.
TextPaths ==
    [about_us_text |-> <<"/pages/about", "/pages/about-us">>,
     privacy_policy |-> <<"/policies/privacy-policy">>,
     return_policy |-> <<"/policies/return-policy", "/policies/shipping-policy">>,
     refund_policy |-> <<"/policies/refund-policy">>]

FaqPaths == <<"/pages/faq", "/pages/faqs", "/pages/frequently-asked-questions">>

\* A test that lets the failure sentinel through as if it were a page's text.
TextAcceptedAnyNonEmpty(text) == text # ""

\* Line 134: the test that makes get_page_text return a candidate's text.
TextAccepted(text) == text # "" /\ text # CouldNotParse

\* A text extractor that normalizes the cached homepage along with the page it
\* fetched: the link-bearing subtrees of the shared document are removed.
TextStepOnCachedHomepage ==
    /\ pc \in DOMAIN TextPaths
    /\ LET paths == TextPaths[pc]
           path == paths[path_i]
           text == GetTextFromUrl(store.pages[path])
       IN /\ fetched' = Append(fetched, UrlJoin(base_url, path))
          /\ homepage_soup' = IF homepage_soup.ok
                              THEN Soup([homepage_soup.doc EXCEPT !.links = <<>>])
                              ELSE homepage_soup
          /\ IF TextAccepted(text)
             THEN /\ result' = result @@ (pc :> text)
                  /\ pc' = NextField(pc)
                  /\ path_i' = 1
             ELSE IF path_i = Len(paths)
             THEN /\ result' = result @@ (pc :> NotFound)
                  /\ pc' = NextField(pc)
                  /\ path_i' = 1
             ELSE /\ path_i' = path_i + 1
                  /\ UNCHANGED <<pc, result>>
    /\ UNCHANGED <<store, flat_data, raw_url, base_url, page, all_products, faqs>>

\* One iteration of get_page_text's loop (one candidate path, one fetch); the
\* iteration of the last candidate that is not accepted returns "Not found.".
TextStep ==
    /\ pc \in DOMAIN TextPaths
    /\ LET paths == TextPaths[pc]
           path == paths[path_i]
           text == GetTextFromUrl(store.pages[path])
       IN /\ fetched' = Append(fetched, UrlJoin(base_url, path))
          /\ IF TextAccepted(text)
             THEN /\ result' = result @@ (pc :> text)
                  /\ pc' = NextField(pc)
                  /\ path_i' = 1
             ELSE IF path_i = Len(paths)
             THEN /\ result' = result @@ (pc :> NotFound)
                  /\ pc' = NextField(pc)
                  /\ path_i' = 1
             ELSE /\ path_i' = path_i + 1
                  /\ UNCHANGED <<pc, result>>
    /\ UNCHANGED <<store, flat_data, raw_url, base_url, homepage_soup, page, all_products, faqs>>

\* ----------------------------------------------------------------- get_faqs
\* A FAQ page is the sequence of the sibling elements of its body; a details
\* element carries its summary's text beside the text of its other content.
HeadingTags == {"h2", "h3", "h4", "strong", "b"}
AnswerTags == {"p", "div", "ul", "ol", "span"}

HasSummary(e) == "summary" \in DOMAIN e

\* Lines 150-153: the elements find_all selects.
IsQuestionElem(e) ==
    \/ (e.tag \in HeadingTags /\ Len(Strip(e.text)) > 5)
    \/ (e.tag = "details" /\ HasSummary(e))

RECURSIVE SiblingAnswer(_, _)
\* Lines 162-165: the texts of the siblings from position i on, as long as they
\* are p/div/ul/ol/span elements, each followed by a line break.
SiblingAnswer(doc, i) ==
    IF i > Len(doc) \/ doc[i].tag \notin AnswerTags THEN ""
    ELSE Strip(doc[i].text) \o "\n" \o SiblingAnswer(doc, i + 1)

\* Line 179: find_next_sibling(re.compile(r'p|div|li')) matches a tag name by
\* regular-expression search.
FallbackNameMatches(name) ==
    Contains(name, "p") \/ Contains(name, "div") \/ Contains(name, "li")

\* Lines 179-181: the text of the next sibling the fallback pattern matches.
FallbackAnswer(doc, i) ==
    LET later == {j \in (i + 1)..Len(doc) : FallbackNameMatches(doc[j].tag)}
    IN IF later = {} THEN ""
       ELSE Strip(doc[CHOOSE j \in later : \A k \in later : j <= k].text)

\* Lines 156-183 for the element at position i: the entries it appends.
FaqEntries(doc, i) ==
    LET e == doc[i]
        question == IF e.tag \in HeadingTags THEN Strip(e.text) ELSE Strip(e.summary)
        answer == IF e.tag \in HeadingTags THEN Strip(SiblingAnswer(doc, i + 1))
                  ELSE Strip(e.text)
    IN IF question # "" /\ answer # ""
       THEN <<[question |-> question, answer |-> answer]>>
       ELSE IF question # "" /\ FallbackAnswer(doc, i) # ""
       THEN <<[question |-> question, answer |-> FallbackAnswer(doc, i)]>>
       ELSE <<>>

\* Lines 150-183: the entries one page adds to faqs, in document order.
ParseFaqs(doc) ==
    Concat([i \in 1..Len(doc) |-> IF IsQuestionElem(doc[i]) THEN FaqEntries(doc, i) ELSE <<>>])

\* A deduplication that does nothing.
DedupKeepAll(entries) == entries

RECURSIVE DedupFrom(_, _, _)
DedupFrom(entries, seen_questions, unique_faqs) ==
    IF entries = <<>> THEN unique_faqs
    ELSE IF Head(entries).question \in seen_questions
    THEN DedupFrom(Tail(entries), seen_questions, unique_faqs)
    ELSE DedupFrom(Tail(entries), seen_questions \cup {Head(entries).question},
                   Append(unique_faqs, Head(entries)))

\* Lines 189-194: the first entry of every question, in order.
Dedup(entries) == DedupFrom(entries, {}, <<>>)

NoFaqs == <<[question |-> "N/A", answer |-> "No FAQs found or parsed."]>>

\* A loop that never breaks: every path is fetched.
FaqNeverBreak(soup, found) == FALSE

\* Lines 147, 185: the loop breaks when the page was fetched and faqs is not empty.
FaqBreak(soup, found) == soup.ok /\ found # <<>>

\* One iteration of get_faqs's loop (one path, one fetch); the iteration that
\* breaks, or the last one, goes on to the deduplication and returns.
FaqStep ==
    /\ pc = "faq_page"
    /\ LET path == FaqPaths[path_i]
           soup == FetchPage(store.pages[path])
           found == IF soup.ok THEN faqs \o ParseFaqs(soup.doc) ELSE faqs
       IN /\ fetched' = Append(fetched, UrlJoin(base_url, path))
          /\ faqs' = found
          /\ IF FaqBreak(soup, found) \/ path_i = Len(FaqPaths)
             THEN /\ result' = result @@
                        ("faq_page" :> IF Dedup(found) # <<>> THEN Dedup(found) ELSE NoFaqs)
                  /\ pc' = NextField(pc)
                  /\ path_i' = 1
             ELSE /\ path_i' = path_i + 1
                  /\ UNCHANGED <<pc, result>>
    /\ UNCHANGED <<store, flat_data, raw_url, base_url, homepage_soup, page, all_products>>

\* ---------------------------------------------- main.py: clean_text_for_csv
RECURSIVE CollapseFrom(_, _)
\* re.sub(r'\s+', ' ', text): every run of whitespace becomes one space.
CollapseFrom(s, in_space) ==
    IF s = "" THEN ""
    ELSE IF Char(s, 1) \in Whitespace
    THEN (IF in_space THEN "" ELSE " ") \o CollapseFrom(Tail(s), TRUE)
    ELSE Char(s, 1) \o CollapseFrom(Tail(s), FALSE)

\* Lines 23-25 (the two replace calls find nothing left to replace).
CleanTextForCsv(text) == Strip(CollapseFrom(text, FALSE))

\* str.capitalize()
Capitalize(s) == IF s = "" THEN "" ELSE UpperChar(Char(s, 1)) \o Lower(Tail(s))

\* --------------------------------------------- main.py: flatten_data_for_csv
\* The JSON objects of the store's products, by the identifier the catalog
\* pages list them under.  The third has an empty variants array.
ProductJson ==
    [p1 |-> [title |-> " Blue  Shirt", handle |-> "blue-shirt", product_type |-> "Shirts",
             vendor |-> "Acme", variants |-> <<[price |-> "20.00"], [price |-> "25.00"]>>,
             published_at |-> "2024-01-01", tags |-> <<"new", "blue">>],
     p2 |-> [title |-> "Red Hat", handle |-> "red-hat", product_type |-> "", vendor |-> "Acme",
             variants |-> <<[price |-> "5.00"]>>, published_at |-> "2024-02-01",
             tags |-> <<>>],
     p3 |-> [title |-> "Gift", handle |-> "gift", product_type |-> "", vendor |-> "",
             variants |-> <<>>, published_at |-> "2024-03-01", tags |-> <<>>]]

\* The columns the rows of most sections leave blank.
BlankColumns ==
    [k \in {"Title", "Handle", "Product_Type", "Vendor", "Price", "Published_At", "Tags",
            "Product_URL"} |-> ""]

\* Line 32: product.get("variants", [{}])[0] raises IndexError on an empty array.
FlattenRaises(scraped_data) ==
    \E i \in 1..Len(scraped_data.product_catalog) :
        ProductJson[scraped_data.product_catalog[i]].variants = <<>>

\* Lines 30-46: one row per catalog product.
CatalogRows(scraped_data, base) ==
    [i \in 1..Len(scraped_data.product_catalog) |->
        LET product == ProductJson[scraped_data.product_catalog[i]]
        IN [Category |-> "Product", Subcategory |-> "Catalog",
            Title |-> CleanTextForCsv(product.title), Handle |-> product.handle,
            Product_Type |-> CleanTextForCsv(product.product_type),
            Vendor |-> CleanTextForCsv(product.vendor),
            Price |-> product.variants[1].price,
            Published_At |-> product.published_at,
            Tags |-> CleanTextForCsv(Join(product.tags, ", ")),
            Product_URL |-> base \o "/products/" \o product.handle]]

\* Lines 48-60: one row per hero product.
HeroRows(scraped_data) ==
    [i \in 1..Len(scraped_data.hero_products) |->
        LET hero_product == scraped_data.hero_products[i]
        IN [Category |-> "Product", Subcategory |-> "Hero",
            Title |-> CleanTextForCsv(hero_product.title), Handle |-> hero_product.handle,
            Product_URL |-> hero_product.url,
            Price |-> IF hero_product.price # "" THEN hero_product.price ELSE "N/A",
            Product_Type |-> "", Vendor |-> "", Published_At |-> "", Tags |-> ""]]

\* Lines 62-72: the items of the social_media_links dictionary, in the order
\* `keys` (the dictionary's own order); the test of line 65 compares the value,
\* not the key, with "status".
SocialRows(scraped_data, keys) ==
    Concat([i \in 1..Len(keys) |->
        LET url == scraped_data.social_media_links[keys[i]]
        IN IF url # "" /\ url # "status"
           THEN <<[Category |-> "Social Media", Platform |-> Capitalize(keys[i]),
                   URL |-> url] @@ BlankColumns>>
           ELSE <<>>])

\* Lines 79-105: the contact rows.
ContactRows(scraped_data) ==
    LET emails == scraped_data.contact_info.emails
        phone_numbers == scraped_data.contact_info.phone_numbers
        some(list) == list # <<>> /\ list[1] # "Not found."
        rows(list, type) ==
            [i \in 1..Len(list) |->
                [Category |-> "Contact Info", Type |-> type, Value |-> list[i]]
                    @@ BlankColumns]
    IN (IF some(emails) THEN rows(emails, "Email") ELSE <<>>)
       \o (IF some(phone_numbers) THEN rows(phone_numbers, "Phone Number") ELSE <<>>)
       \o (IF ~some(emails) /\ ~some(phone_numbers)
           THEN <<[Category |-> "Contact Info", Status |-> "No contact info found."]>>
           ELSE <<>>)

\* Line 108-113: text_fields, in the order of the dictionary literal.
TextFields ==
    <<[name |-> "Privacy Policy", field |-> "privacy_policy"],
      [name |-> "Return Policy", field |-> "return_policy"],
      [name |-> "Refund Policy", field |-> "refund_policy"],
      [name |-> "About Us Text", field |-> "about_us_text"]>>

\* Lines 114-129: the rows of the four text fields.
TextRows(scraped_data) ==
    Concat([i \in 1..Len(TextFields) |->
        LET cleaned_content == CleanTextForCsv(scraped_data[TextFields[i].field])
        IN IF cleaned_content # "" /\ cleaned_content # "Not found."
                /\ cleaned_content # "Not found or could not parse."
           THEN <<[Category |-> "Text Content", Section |-> TextFields[i].name,
                   Content |-> cleaned_content] @@ BlankColumns>>
           ELSE IF TextFields[i].name = "About Us Text"
           THEN <<[Category |-> "Text Content", Section |-> TextFields[i].name,
                   Content |-> "Not found."]>>
           ELSE <<>>])

\* Lines 132-146: one row per FAQ entry, or the status row.
FaqRows(scraped_data) ==
    LET faq_data == scraped_data.faq_page
    IN IF faq_data # <<>> /\ faq_data[1].answer # "No FAQs found or parsed."
       THEN [i \in 1..Len(faq_data) |->
                [Category |-> "FAQ", Question |-> CleanTextForCsv(faq_data[i].question),
                 Answer |-> CleanTextForCsv(faq_data[i].answer)] @@ BlankColumns]
       ELSE <<[Category |-> "FAQ", Status |-> "No FAQs found or parsed."]>>

\* Lines 148-158: the items of the important_links dictionary, in the order
\* `keys`; as for the social links, the value is what line 151 compares.
ImportantRows(scraped_data, keys) ==
    Concat([i \in 1..Len(keys) |->
        LET url == scraped_data.important_links[keys[i]]
        IN IF url # "" /\ url # "status"
           THEN <<[Category |-> "Important Link",
                   Label |-> Title(Replace(keys[i], "_", " ")), URL |-> url]
                      @@ BlankColumns>>
           ELSE <<>>])

\* Lines 28-165: flat_records, section after section.  A dictionary of the
\* aggregate keeps its insertion order, which the model's mappings do not
\* record: social_keys and link_keys give the order of their items.
FlattenDataForCsv(scraped_data, base, social_keys, link_keys) ==
    CatalogRows(scraped_data, base)
        \o HeroRows(scraped_data)
        \o SocialRows(scraped_data, social_keys)
        \o ContactRows(scraped_data)
        \o TextRows(scraped_data)
        \o FaqRows(scraped_data)
        \o ImportantRows(scraped_data, link_keys)

\* scrape_store_csv, lines 192-198, once run_all has returned: 400 for the
\* error dictionary, else the rows are flattened (an exception becomes a 500)
\* and an empty list of rows becomes the 204.
ScrapeStoreCsv ==
    /\ pc = "done"
    /\ IF "error" \in DOMAIN result
       THEN pc' = "http_400" /\ UNCHANGED flat_data
       ELSE IF FlattenRaises(result)
       THEN pc' = "http_500" /\ UNCHANGED flat_data
       ELSE \E social_keys \in Orderings(DOMAIN result.social_media_links),
               link_keys \in Orderings(DOMAIN result.important_links) :
                /\ flat_data' = FlattenDataForCsv(result, raw_url, social_keys, link_keys)
                /\ pc' = IF flat_data' = <<>> THEN "http_204" ELSE "csv"
    /\ UNCHANGED <<store, raw_url, base_url, homepage_soup, fetched, page, all_products,
                   path_i, faqs, result>>

\* --------------------------------------------------------- catalog claims
\* The pages the claims call the end of the catalog: an empty (or missing)
\* products array, a transport failure (a 4xx/5xx status included), a body that
\* is not JSON.
StopPage(resp) ==
    \/ resp.kind \in {"transport_error", "http_error", "not_json"}
    \/ (resp.kind = "json_object" /\ (~resp.has_products \/ resp.products = <<>>))

\* The first page of catalog c that does not extend the collection (0: none).
FirstEnd(c) ==
    LET ends == {n \in DOMAIN c : StopPage(c[n]) \/ c[n].kind = "json_non_object"}
    IN IF ends = {} THEN 0 ELSE CHOOSE n \in ends : \A m \in ends : n <= m

CatalogReturned == "product_catalog" \in DOMAIN result
CatalogRequests == Len(fetched) - 1

\* C6: get_product_catalog requests pages 1, 2, 3, ... consecutively, none
\* skipped or repeated, and returns exactly the concatenation in page order of
\* the products of the pages before the first page that is empty, fails in
\* transport or fails JSON decoding; the pages collected before that page are
\* returned even when it is a failure.
C6_CatalogIsPagesBeforeFirstStop ==
    LET n == FirstEnd(store.catalog)
    IN /\ \A i \in 1..CatalogRequests : fetched[i + 1] = ProductsJsonUrl(base_url, i)
       /\ CatalogReturned =>
            /\ n > 0
            /\ StopPage(store.catalog[n])
            /\ CatalogRequests = n
            /\ result.product_catalog = Concat([i \in 1..(n - 1) |-> store.catalog[i].products])
       /\ (n > 0 /\ StopPage(store.catalog[n]) /\ CatalogRequests >= n) => CatalogReturned

\* C6 witness: page 1 with 2 products, page 2 with 0: exactly those 2 entries;
\* and a store whose page 2 fails after a non-empty page 1.
C6_Witness ==
    /\ CatalogReturned
    /\ store.catalog[1] = JsonProducts(<<"p1", "p2">>)
    /\ store.catalog[2] = JsonProducts(<<>>)
    /\ result.product_catalog = <<"p1", "p2">>

\* C7: pagination ends on an empty products array: a page with an empty or
\* missing products array (or a failing one) is the last page requested, the
\* call is over right after it and nothing but such a page ends the loop, so
\* collection terminates for every store that serves such a page.
C7_CatalogTerminatesOnEmptyPage ==
    /\ [][(pc = "product_catalog" /\ page <= MaxPages /\ StopPage(store.catalog[page]))
            => (pc' = "hero_products" /\ CatalogReturned'
                /\ fetched' = Append(fetched, ProductsJsonUrl(base_url, page)))]_vars
    /\ [][pc # "product_catalog" => fetched' = fetched]_vars
    /\ [](pc # "product_catalog" =>
            (CatalogRequests = FirstEnd(store.catalog) /\ CatalogRequests > 0))
    /\ (FirstEnd(store.catalog) > 0) => <>(pc # "product_catalog")

\* C7 witness: the call returned after an empty page that followed two
\* non-empty ones.
C7_Witness ==
    /\ CatalogReturned
    /\ CatalogRequests = 3
    /\ store.catalog[3].kind = "json_object"
    /\ ProductsOf(store.catalog[3]) = <<>>
    /\ Len(result.product_catalog) > 0

\* ------------------------------------------------------- text page claims
\* The requests made for the candidate paths of text field f, in order.
TextFetches(f) ==
    LET urls == {UrlJoin(base_url, TextPaths[f][i]) : i \in 1..Len(TextPaths[f])}
    IN SelectSeq(fetched, LAMBDA u : u \in urls)

\* C10: get_page_text tries its candidates in list order and returns the
\* normalized text of the first candidate that was fetched successfully and
\* whose normalized text is not empty, fetching no candidate after it; when
\* every candidate fails or is empty it returns exactly "Not found.".
C10_FirstFetchedNonEmptyText ==
    \A f \in DOMAIN TextPaths :
        f \in DOMAIN result =>
            LET paths == TextPaths[f]
                good == {i \in 1..Len(paths) :
                            /\ ~Failed(store.pages[paths[i]])
                            /\ NormalizedText(store.pages[paths[i]].doc) # ""}
                g == CHOOSE i \in good : \A j \in good : i <= j
                tried == IF good = {} THEN Len(paths) ELSE g
            IN /\ TextFetches(f) = [i \in 1..tried |-> UrlJoin(base_url, paths[i])]
               /\ result[f] = IF good = {} THEN NotFound
                               ELSE NormalizedText(store.pages[paths[g]].doc)

\* ------------------------------------------------------------- FAQ claims
FaqReturned == "faq_page" \in DOMAIN result

\* The requests made for the FAQ paths, in order.
FaqFetches ==
    LET urls == {UrlJoin(base_url, FaqPaths[i]) : i \in 1..Len(FaqPaths)}
    IN SelectSeq(fetched, LAMBDA u : u \in urls)

\* The positions of entries whose question no earlier entry carries.
FirstOccurrences(entries) ==
    {i \in 1..Len(entries) : \A j \in 1..(i - 1) : entries[j].question # entries[i].question}

\* Whether r is the subsequence of entries at the positions I, in order.
IsSubsequenceAt(r, entries, I) ==
    /\ Len(r) = Cardinality(I)
    /\ \A k \in 1..Len(r) :
          \E i \in I : /\ Cardinality({j \in I : j <= i}) = k
                       /\ r[k] = entries[i]

\* C8: the list get_faqs returns has pairwise distinct questions: of the
\* parsed entries with the same question only the first in parse order is
\* kept, with its answer, and the kept entries stay in parse order.
C8_FaqQuestionsDistinctFirstKept ==
    FaqReturned =>
        LET r == result.faq_page
        IN /\ \A i, j \in 1..Len(r) : i # j => r[i].question # r[j].question
           /\ faqs # <<>> => IsSubsequenceAt(r, faqs, FirstOccurrences(faqs))
           /\ faqs = <<>> => r = NoFaqs

\* C8 witness: two parsed entries, the second repeating the question of the
\* first with another answer; only the first was returned.
C8_Witness ==
    /\ FaqReturned
    /\ Len(faqs) = 2
    /\ faqs[2].question = faqs[1].question
    /\ faqs[2].answer # faqs[1].answer
    /\ result.faq_page = <<faqs[1]>>

\* Whether the i-th FAQ path answers a page with at least one parsed pair.
FaqYields(i) ==
    /\ ~Failed(store.pages[FaqPaths[i]])
    /\ ParseFaqs(store.pages[FaqPaths[i]].doc) # <<>>

\* C9: get_faqs fetches its paths in list order and stops at the first path
\* whose page yields a parsed pair: no later path is fetched, every returned
\* entry comes from that one page, and a path that fails or yields nothing
\* makes the next path be tried.
C9_FaqStopsAtFirstYieldingPath ==
    LET yielding == {i \in 1..Len(FaqPaths) : FaqYields(i)}
        first == CHOOSE i \in yielding : \A j \in yielding : i <= j
        last == IF yielding = {} THEN Len(FaqPaths) ELSE first
        n == Len(FaqFetches)
    IN /\ n <= last
       /\ FaqFetches = [i \in 1..n |-> UrlJoin(base_url, FaqPaths[i])]
       /\ FaqReturned <=> (n = last)
       /\ (FaqReturned /\ yielding # {}) =>
             \A k \in 1..Len(result.faq_page) :
                \E m \in 1..Len(ParseFaqs(store.pages[FaqPaths[first]].doc)) :
                    result.faq_page[k] = ParseFaqs(store.pages[FaqPaths[first]].doc)[m]
       /\ (FaqReturned /\ yielding = {}) => result.faq_page = NoFaqs

\* C9 witness: the first path failed, the second yielded entries and the
\* third, which would have yielded too, was not fetched.
C9_Witness ==
    /\ FaqReturned
    /\ Failed(store.pages[FaqPaths[1]])
    /\ FaqYields(2)
    /\ FaqYields(3)
    /\ Len(FaqFetches) = 2
    /\ result.faq_page # NoFaqs

\* -------------------------------------------------- important link claims
LinksReturned == "important_links" \in DOMAIN result

\* The anchors (with an href) that match category k, in document order.
MatchingAnchors(k) ==
    SelectSeq(AnchorsWithHref(homepage_soup.doc),
              LAMBDA a : LinkMatches(a, LinkKeywords[k].keywords))

\* C2: for every category the URL returned by get_important_links comes from
\* the first anchor in document order whose text or href contains one of the
\* category's keywords; a later matching anchor never overwrites it.
C2_ImportantLinkIsFirstMatch ==
    LinksReturned =>
        \A k \in 1..Len(LinkKeywords) :
            MatchingAnchors(k) # <<>> =>
                /\ LinkKeywords[k].key \in DOMAIN result.important_links
                /\ result.important_links[LinkKeywords[k].key]
                      = UrlJoin(base_url, Lower(MatchingAnchors(k)[1].href))

\* ----------------------------------------------------- contact info claims
ContactReturned == "contact_info" \in DOMAIN result

ExampleText == "contact me at a@b.com or call 987-654-3210"

\* C3: a phone number written in 3-3-4 grouping is returned as its 10 digits:
\* the text "contact me at a@b.com or call 987-654-3210" gives emails
\* ["a@b.com"] and phone_numbers ["9876543210"]; in general every match of
\* either branch of the phone pattern with at least 7 digits is, cleaned to
\* its digits, in phone_numbers.
C3_GroupedPhoneReturned ==
    ContactReturned =>
        LET text == HomepageText(homepage_soup.doc)
            whole == PhoneFindAllWholeMatch(text)
            phones == result.contact_info.phone_numbers
        IN /\ text = ExampleText =>
                result.contact_info = [emails |-> <<"a@b.com">>,
                                       phone_numbers |-> <<"9876543210">>]
           /\ \A k \in 1..Len(whole) :
                Len(KeepChars(whole[k], Digits)) >= 7 =>
                    \E n \in 1..Len(phones) : phones[n] = KeepChars(whole[k], Digits)

NoDuplicates(list) == \A i, j \in 1..Len(list) : i # j => list[i] # list[j]

\* C4: the emails list and the phone_numbers list get_contact_info returns have
\* no duplicate and are never empty: a list with no match is exactly
\* ["Not found."], and "Not found." never stands beside a real value.
C4_ContactListsDistinctNonEmpty ==
    ContactReturned =>
        LET text == HomepageText(homepage_soup.doc)
            info == result.contact_info
        IN /\ \A list \in {info.emails, info.phone_numbers} :
                /\ list # <<>>
                /\ NoDuplicates(list)
                /\ (\E k \in 1..Len(list) : list[k] = "Not found.") => list = NotFoundList
           /\ EmailFindAll(text, 1) = <<>> => info.emails = NotFoundList
           /\ PhoneMatches(text, 1) = <<>> => info.phone_numbers = NotFoundList

\* C4 witness: a text in which the same email and the same phone number are
\* matched twice each; each is returned once.
C4_Witness ==
    /\ ContactReturned
    /\ Len(EmailFindAll(HomepageText(homepage_soup.doc), 1)) = 2
    /\ Len(CleanedPhones(HomepageText(homepage_soup.doc))) = 2
    /\ Len(result.contact_info.emails) = 1
    /\ Len(result.contact_info.phone_numbers) = 1
    /\ result.contact_info.emails # NotFoundList
    /\ result.contact_info.phone_numbers # NotFoundList

\* ---------------------------------------------------- hero product claims
HeroReturned == "hero_products" \in DOMAIN result

\* C5: no two entries of get_hero_products's list share a handle, and the
\* entry of a handle (title, url, price) is the one made by the first anchor
\* reached when the five selectors are scanned in list order, each selector's
\* matches in document order; an anchor reached later never replaces or
\* alters it.
C5_HeroHandlesUniqueFirstWins ==
    HeroReturned =>
        LET r == result.hero_products
            cands == HeroCandidates(homepage_soup.doc)
            valid == {i \in 1..Len(cands) : HasHandle(cands[i], base_url)}
            handle(i) == HandleOf(HeroUrl(base_url, cands[i].href))
            first(h) == CHOOSE i \in valid :
                            handle(i) = h /\ \A j \in valid : handle(j) = h => i <= j
        IN /\ \A i, j \in 1..Len(r) : i # j => r[i].handle # r[j].handle
           /\ {r[i].handle : i \in 1..Len(r)} = {handle(i) : i \in valid}
           /\ \A i \in 1..Len(r) : r[i] = HeroEntry(cands[first(r[i].handle)], base_url)

\* C5 witness: two links with the same handle and different title, url and
\* price were reached; the list has that handle once, as the first made it.
C5_Witness ==
    /\ HeroReturned
    /\ \E i, j \in 1..Len(HeroCandidates(homepage_soup.doc)) :
          LET ci == HeroCandidates(homepage_soup.doc)[i]
              cj == HeroCandidates(homepage_soup.doc)[j]
          IN /\ i < j
             /\ HasHandle(ci, base_url) /\ HasHandle(cj, base_url)
             /\ HeroEntry(ci, base_url).handle = HeroEntry(cj, base_url).handle
             /\ HeroEntry(ci, base_url).title # HeroEntry(cj, base_url).title
             /\ HeroEntry(ci, base_url).url # HeroEntry(cj, base_url).url
             /\ result.hero_products = <<HeroEntry(ci, base_url)>>

\* --------------------------------------------------------- session claims
\* C1: when the homepage fetch made at construction fails (network error or
\* non-2xx status), run_all returns exactly the one-key error dictionary and
\* the session makes no further fetch: no catalog, text or FAQ page.
C1_HomepageFailureStopsSession ==
    Failed(store.home) =>
        /\ pc \in {"new", "run_all", "done"}
        /\ pc # "new" => fetched = <<base_url>>
        /\ pc = "done" =>
              result = [error |-> "Could not fetch the store's homepage. Please check the URL."]

\* C1 witness: run_all has returned in a session whose homepage answered a
\* non-2xx status.
C1_Witness ==
    /\ pc = "done"
    /\ store.home = HttpError
    /\ DOMAIN result = {"error"}
    /\ Len(fetched) = 1

\* ------------------------------------------------------- aggregate claims
\* run_all has returned the dictionary of the ten fields.
AggregateReturned == pc = "done" /\ homepage_soup.ok

AggregateFields == {FieldOrder[i] : i \in 1..Len(FieldOrder)}

\* A list or a mapping that holds something.
NonEmpty(x) == DOMAIN x # {}

\* The collection fields that are never empty: a sentinel stands in.
SentinelledCollectionsNonEmpty ==
    /\ NonEmpty(result.social_media_links)
    /\ NonEmpty(result.contact_info.emails)
    /\ NonEmpty(result.contact_info.phone_numbers)
    /\ NonEmpty(result.important_links)
    /\ NonEmpty(result.faq_page)

\* C11 as stated: in every aggregate run_all returns after a successful
\* homepage fetch all ten fields are present and none of the seven collection
\* fields (product_catalog and hero_products included) is an empty list or an
\* empty mapping.
C11_NoCollectionFieldEmpty ==
    AggregateReturned =>
        /\ DOMAIN result = AggregateFields
        /\ SentinelledCollectionsNonEmpty
        /\ NonEmpty(result.product_catalog)
        /\ NonEmpty(result.hero_products)

\* C11 amended: in every aggregate run_all returns after a successful homepage
\* fetch all ten fields are present, and social_media_links, both contact
\* lists, important_links and faq_page are non-empty (data or the sentinel);
\* product_catalog and hero_products have no sentinel and are the empty list
\* exactly when no product was collected and no link produced a hero entry.
C11_SentinelledCollectionsNeverEmpty ==
    AggregateReturned =>
        /\ DOMAIN result = AggregateFields
        /\ SentinelledCollectionsNonEmpty
        /\ (result.product_catalog = <<>>) = (CatalogOutcome(store.catalog[1]) = "break")
        /\ (result.hero_products = <<>>) =
              (\A i \in 1..Len(homepage_soup.doc.links) :
                    ~HasHandle(homepage_soup.doc.links[i], base_url)
                    \/ \A k \in 1..NumSelectors : ~Selects(k, homepage_soup.doc.links[i]))

\* C11 witness: an aggregate returned for a store with no product and a
\* homepage without links: both product lists are empty, the other
\* collections hold their sentinels.
C11_Witness ==
    /\ AggregateReturned
    /\ result.product_catalog = <<>>
    /\ result.hero_products = <<>>
    /\ result.social_media_links = NoSocialLinks
    /\ result.important_links = NoImportantLinks
    /\ result.contact_info = [emails |-> NotFoundList, phone_numbers |-> NotFoundList]
    /\ result.faq_page = NoFaqs

\* A value that is the absolute URL an anchor's href resolves to against the
\* store's base URL (compared without regard to letter case).
ResolvedHref(url, links) ==
    /\ HasScheme(url)
    /\ \E i \in 1..Len(links) :
            links[i].has_href /\ Lower(url) = Lower(UrlJoin(base_url, links[i].href))

\* The values of a link mapping, none when it is the sentinel.
LinkValues(mapping) ==
    IF "status" \in DOMAIN mapping THEN {} ELSE {mapping[k] : k \in DOMAIN mapping}

\* C12: every URL value of the aggregate (each hero product's url, each value
\* of social_media_links, each value of important_links) is an absolute URL,
\* the anchor's href resolved against the store's base URL (for a hero product
\* with the query string removed); a relative href is never returned as it is.
C12_EveryUrlResolvedAgainstBase ==
    /\ "hero_products" \in DOMAIN result =>
          \A i \in 1..Len(result.hero_products) :
              /\ HasScheme(result.hero_products[i].url)
              /\ \E j \in 1..Len(homepage_soup.doc.links) :
                    /\ homepage_soup.doc.links[j].has_href
                    /\ result.hero_products[i].url =
                          HeroUrl(base_url, homepage_soup.doc.links[j].href)
    /\ "social_media_links" \in DOMAIN result =>
          \A url \in LinkValues(result.social_media_links) :
              ResolvedHref(url, homepage_soup.doc.links)
    /\ "important_links" \in DOMAIN result =>
          \A url \in LinkValues(result.important_links) :
              ResolvedHref(url, homepage_soup.doc.links)

\* C13: once the homepage has been fetched, no exception leaves run_all,
\* whatever the secondary responses are (transport error, non-2xx status, a
\* body that is not JSON, a JSON body that is not an object, unparsable
\* markup), and what run_all returns is the aggregate of all ten fields.
C13_NoSecondaryFailureEscapesRunAll ==
    ~Failed(store.home) =>
        /\ pc # "raised"
        /\ pc = "done" => DOMAIN result = AggregateFields

\* ------------------------------------------------------ social link claims
\* The anchors (positions among the anchors with an href) whose case-folded
\* href contains a keyword of entry k of the platform table.
SocialMatches(k, anchors) ==
    {i \in 1..Len(anchors) :
        \E w \in 1..Len(SocialPlatforms[k].keywords) :
            Contains(Lower(anchors[i].href), SocialPlatforms[k].keywords[w])}

RowCount(P(_)) == Cardinality({i \in 1..Len(flat_data) : P(flat_data[i])})

In(r, category) == r.Category = category

\* A row that carries a message in the Status column.
StatusRow(r, category, message) ==
    In(r, category) /\ "Status" \in DOMAIN r /\ r.Status = message

\* A section that holds data has one row per fact; a section that holds only
\* its sentinel has exactly one row, the one with the message as its Status.
SectionRows(category, sentinel_only, facts, message) ==
    IF sentinel_only
    THEN /\ RowCount(LAMBDA r : In(r, category)) = 1
         /\ RowCount(LAMBDA r : StatusRow(r, category, message)) = 1
    ELSE RowCount(LAMBDA r : In(r, category)) = facts

C15_CatalogAndHeroRows ==
    /\ RowCount(LAMBDA r : In(r, "Product") /\ r.Subcategory = "Catalog")
          = Len(result.product_catalog)
    /\ RowCount(LAMBDA r : In(r, "Product") /\ r.Subcategory = "Hero")
          = Len(result.hero_products)

C15_LinkRows ==
    /\ SectionRows("Social Media", result.social_media_links = NoSocialLinks,
                   Cardinality(DOMAIN result.social_media_links),
                   "No social media links found.")
    /\ SectionRows("Important Link", result.important_links = NoImportantLinks,
                   Cardinality(DOMAIN result.important_links),
                   "No important links found.")

C15_ContactRows ==
    LET emails == result.contact_info.emails
        phone_numbers == result.contact_info.phone_numbers
        facts(list) == IF list = NotFoundList THEN 0 ELSE Len(list)
    IN SectionRows("Contact Info", emails = NotFoundList /\ phone_numbers = NotFoundList,
                   facts(emails) + facts(phone_numbers), "No contact info found.")

C15_TextRows ==
    \A i \in 1..Len(TextFields) :
        LET text == result[TextFields[i].field]
            of_field(r) == In(r, "Text Content") /\ r.Section = TextFields[i].name
        IN /\ RowCount(of_field) = 1
           /\ text \in {NotFound, CouldNotParse} =>
                RowCount(LAMBDA r : of_field(r) /\ "Status" \in DOMAIN r /\ r.Status = text) = 1

C15_FaqRows ==
    SectionRows("FAQ", result.faq_page = NoFaqs, Len(result.faq_page),
                "No FAQs found or parsed.")

\* C15: flatten_data_for_csv produces exactly one row for every non-sentinel
\* fact of the aggregate (catalog product, hero product, social link, email,
\* phone number, important link, FAQ entry, non-sentinel text field), and
\* every section that holds only its sentinel (social links, contact info,
\* important links, FAQ, each of the four text fields) produces exactly one
\* row, with the message in the Status column.
C15_OneRowPerFactOneStatusRowPerSentinel ==
    pc = "csv" =>
        /\ C15_CatalogAndHeroRows
        /\ C15_LinkRows
        /\ C15_ContactRows
        /\ C15_TextRows
        /\ C15_FaqRows

\* -------------------------------------------------------- text field claims
TextFieldsReturned == {f \in DOMAIN TextPaths : f \in DOMAIN result}

\* The answers of the candidate paths of text field f.
CandidateResponses(f) == {store.pages[TextPaths[f][i]] : i \in 1..Len(TextPaths[f])}

\* C16 as stated: a text field defaults to one sentinel or the other depending
\* on the failure mode, so that "Not found or could not parse." is the value
\* of a field whose every candidate page ended in a fetch error.
C16_FetchErrorGivesCouldNotParse ==
    \A f \in TextFieldsReturned :
        (\A resp \in CandidateResponses(f) : Failed(resp)) =>
            result[f] = "Not found or could not parse."

\* C16 amended: each of the four text fields independently defaults to
\* "Not found." whatever the failure mode of its candidates (transport error,
\* non-2xx status, a page without text); "Not found or could not parse." is
\* only what _get_text_from_url hands to get_page_text and is never the value
\* of a text field.
C16_TextFieldDefaultsToNotFound ==
    \A f \in TextFieldsReturned :
        /\ result[f] # "Not found or could not parse."
        /\ (\A resp \in CandidateResponses(f) :
                Failed(resp) \/ NormalizedText(resp.doc) = "") =>
              result[f] = "Not found."

\* C16 witness: the about field, whose two candidates failed in different
\* ways, and the refund field, whose only candidate failed, both hold
\* "Not found.", beside a field that holds a page's text.
C16_Witness ==
    /\ TextFieldsReturned = DOMAIN TextPaths
    /\ store.pages["/pages/about"] = TransportError
    /\ store.pages["/pages/about-us"] = HttpError
    /\ result.about_us_text = "Not found."
    /\ result.refund_policy = "Not found."
    /\ result.privacy_policy = "Privacy"

\* ---------------------------------------------------------- fetch trace claims
\* The position in run_all of the call that requests url: 0 for the homepage
\* (the constructor), 1 for the catalog, 6 to 9 for the four text fields and
\* 10 for the FAQ (their places in the evaluation order); 11 for any other URL.
FetchRank(url) ==
    IF url = base_url THEN 0
    ELSE IF \E n \in 1..MaxPages : url = ProductsJsonUrl(base_url, n) THEN 1
    ELSE IF \E f \in DOMAIN TextPaths, i \in 1..2 :
                i <= Len(TextPaths[f]) /\ url = UrlJoin(base_url, TextPaths[f][i])
    THEN CHOOSE k \in 6..9 :
            \E i \in 1..Len(TextPaths[FieldOrder[k]]) :
                url = UrlJoin(base_url, TextPaths[FieldOrder[k]][i])
    ELSE IF \E i \in 1..Len(FaqPaths) : url = UrlJoin(base_url, FaqPaths[i]) THEN 10
    ELSE 11

FetchesOfRank(k) == {i \in 1..Len(fetched) : FetchRank(fetched[i]) = k}

\* C17: the fetches of a session form one sequential, bounded trace: the
\* homepage is fetched exactly once, before every other fetch; the hero,
\* social, contact and important-link extractors issue no fetch; beside the
\* catalog pages there are at most 2 fetches for the about text, 1 for the
\* privacy policy, 2 for the return policy, 1 for the refund policy and 3 for
\* the FAQ, made in that order; and no URL is ever fetched twice.
C17_FetchTraceSequentialAndBounded ==
    pc # "new" =>
        /\ fetched # <<>> /\ FetchesOfRank(0) = {1}
        /\ \A i, j \in 1..Len(fetched) :
              /\ i < j => FetchRank(fetched[i]) <= FetchRank(fetched[j])
              /\ i # j => fetched[i] # fetched[j]
        /\ FetchesOfRank(11) = {}
        /\ Cardinality(FetchesOfRank(6)) <= 2
        /\ Cardinality(FetchesOfRank(7)) <= 1
        /\ Cardinality(FetchesOfRank(8)) <= 2
        /\ Cardinality(FetchesOfRank(9)) <= 1
        /\ Cardinality(FetchesOfRank(10)) <= 3
        /\ (pc \in {"hero_products", "social_media_links", "contact_info", "important_links"}
                \/ (pc = "about_us_text" /\ path_i = 1)) =>
              \A i \in 2..Len(fetched) : FetchRank(fetched[i]) = 1

\* C17 witness: a session on a store whose secondary pages all fail has
\* returned after the homepage, two catalog pages and every candidate path:
\* 2 + 1 + 2 + 1 text fetches and 3 FAQ fetches.
C17_Witness ==
    /\ AggregateReturned
    /\ Cardinality(FetchesOfRank(1)) = 2
    /\ Cardinality(FetchesOfRank(6)) = 2 /\ Cardinality(FetchesOfRank(7)) = 1
    /\ Cardinality(FetchesOfRank(8)) = 2 /\ Cardinality(FetchesOfRank(9)) = 1
    /\ Cardinality(FetchesOfRank(10)) = 3
    /\ Len(fetched) = 12

\* ------------------------------------------------- order of the extractors
\* What extractor f returns when it is called alone on the session's inputs:
\* a function of the base URL as constructed, of the homepage as first
\* fetched and of the answers of the store, and of nothing an earlier call
\* could have left behind.  (contact_info: the lists come out of sets, so
\* their order is not fixed even for one call.)
IsolatedResults(f) ==
    LET base == NormalizeBaseUrl(raw_url)
        home == FetchPage(store.home)
    IN CASE f = "product_catalog" ->
              {Concat([i \in 1..(FirstEnd(store.catalog) - 1) |-> store.catalog[i].products])}
         [] f = "hero_products" -> {GetHeroProducts(home, base)}
         [] f = "social_media_links" -> {GetSocialMediaLinks(home)}
         [] f = "important_links" -> {GetImportantLinks(home, base)}
         [] f = "contact_info" ->
              IF ~home.ok THEN {HomepageUnavailable}
              ELSE {[emails |-> IF e # <<>> THEN e ELSE NotFoundList,
                     phone_numbers |-> IF p # <<>> THEN p ELSE NotFoundList] :
                        e \in ListOfSet(EmailFindAll(HomepageText(home.doc), 1)),
                        p \in ListOfSet(CleanedPhones(HomepageText(home.doc)))}
         [] f \in DOMAIN TextPaths ->
              LET texts == [i \in 1..Len(TextPaths[f]) |->
                              GetTextFromUrl(store.pages[TextPaths[f][i]])]
                  good == {i \in DOMAIN texts : TextAccepted(texts[i])}
              IN IF good = {} THEN {NotFound}
                 ELSE {texts[CHOOSE i \in good : \A j \in good : i <= j]}
         [] f = "faq_page" ->
              LET yielding == {i \in 1..Len(FaqPaths) : FaqYields(i)}
                  first == CHOOSE i \in yielding : \A j \in yielding : i <= j
              IN IF yielding = {} THEN {NoFaqs}
                 ELSE {Dedup(ParseFaqs(store.pages[FaqPaths[first]].doc))}

FallbackTags == {"p", "div", "li"}

\* The entries C19 lets the element at position i of a FAQ page add: for a
\* heading whose immediately following siblings give no answer text, one entry
\* with the text of the next following p, div or li sibling, if there is one
\* and its text is not empty, and no entry otherwise.
EntriesAsStated(doc, i) ==
    LET later == {j \in (i + 1)..Len(doc) : doc[j].tag \in FallbackTags}
        answer == IF later = {} THEN ""
                  ELSE Strip(doc[CHOOSE j \in later : \A k \in later : j <= k].text)
    IN IF doc[i].tag \in HeadingTags /\ Strip(SiblingAnswer(doc, i + 1)) = ""
       THEN IF answer = "" THEN <<>>
            ELSE <<[question |-> Strip(doc[i].text), answer |-> answer]>>
       ELSE FaqEntries(doc, i)

\* C19: in get_faqs, a heading that yields a question but whose immediately
\* following siblings give no answer text takes as its answer the text of the
\* next following sibling that is a p, div or li element and of no other
\* element type; without such a sibling, or when its text is empty, the
\* question produces no entry.
C19_FallbackAnswerOnlyFromParagraphDivOrListItem ==
    FaqReturned =>
        faqs = Concat([n \in 1..Len(FaqFetches) |->
                    LET resp == store.pages[FaqPaths[n]]
                    IN IF Failed(resp) THEN <<>>
                       ELSE Concat([i \in 1..Len(resp.doc) |->
                                IF IsQuestionElem(resp.doc[i])
                                THEN EntriesAsStated(resp.doc, i) ELSE <<>>])])

\* ------------------------------------------------ the 204 of /scrape-csv/
\* The 204 answer of line 197 is never given.
C20_NoContentUnreachable == pc # "http_204"

\* Whenever flatten_data_for_csv returns, its list has a FAQ row: the entries
\* of the FAQ list, or the one status row when the list is the sentinel.
C20_FaqSectionAlwaysContributes ==
    pc = "csv" =>
        /\ flat_data # <<>>
        /\ \E i \in 1..Len(flat_data) : flat_data[i].Category = "FAQ"
        /\ result.faq_page = NoFaqs =>
              RowCount(LAMBDA r : r = [Category |-> "FAQ",
                                       Status |-> "No FAQs found or parsed."]) = 1

\* flatten_data_for_csv returns for every aggregate run_all returned without
\* an error: the endpoint's catch-all 500 is not what answers it.
C20_FlattenReturns == pc # "http_500"

\* C20: for every aggregate that run_all can return without an error,
\* flatten_data_for_csv returns a non-empty list, the FAQ section always
\* contributing at least one row (the entries or one status row), so that the
\* 204 outcome of /scrape-csv/ is unreachable.
C20_FlattenNeverEmptySo204Unreachable ==
    /\ C20_FlattenReturns
    /\ C20_FaqSectionAlwaysContributes
    /\ C20_NoContentUnreachable

\* ----------------------------------------------------------- specifications
EmptyDoc == [body |-> "", links |-> <<>>]
DefaultBase == "https://shop.example"

AllPaths == {"/pages/about", "/pages/about-us", "/policies/privacy-policy",
             "/policies/return-policy", "/policies/shipping-policy",
             "/policies/refund-policy", "/pages/faq", "/pages/faqs",
             "/pages/frequently-asked-questions"}

NoPages == [p \in AllPaths |-> TransportError]
NoCatalog == [n \in 1..MaxPages |-> HttpError]

\* get_product_catalog alone, on every store catalog of MaxPages answers.
InitCatalog ==
    /\ store \in {[home |-> Html(EmptyDoc), catalog |-> c, pages |-> NoPages] : c \in Catalogs}
    /\ raw_url = DefaultBase
    /\ base_url = DefaultBase
    /\ homepage_soup = Soup(EmptyDoc)
    /\ pc = "product_catalog"
    /\ fetched = <<DefaultBase>>
    /\ page = 1
    /\ all_products = <<>>
    /\ path_i = 1
    /\ faqs = <<>>
    /\ result = <<>>
    /\ flat_data = <<>>

SpecCatalog == InitCatalog /\ [][CatalogStep]_vars /\ WF_vars(CatalogStep)

\* Top-level elements of a text page, and the pages built from them.
TextElems ==
    {[tag |-> "p", text |-> "About  us\n since 2020 "],
     [tag |-> "nav", text |-> "Menu"],
     [tag |-> "p", text |-> "  \n "],
     [tag |-> "p", text |-> "Not found or could not parse."]}

TextResponses ==
    {TransportError, HttpError} \cup {Html(d) : d \in SeqsUpTo(TextElems, MaxTextElems)}

\* The four get_page_text calls of run_all, on every answer of the two about
\* pages; the policy pages answer one way each.
TextPages ==
    {[p \in AllPaths |->
        IF p = "/pages/about" THEN a
        ELSE IF p = "/pages/about-us" THEN b
        ELSE IF p = "/policies/privacy-policy" THEN Html(<<[tag |-> "p", text |-> "Privacy"]>>)
        ELSE IF p = "/policies/return-policy" THEN HttpError
        ELSE IF p = "/policies/shipping-policy" THEN Html(<<[tag |-> "p", text |-> "Shipping"]>>)
        ELSE TransportError] : a \in TextResponses, b \in TextResponses}

InitText ==
    /\ store \in {[home |-> Html(EmptyDoc), catalog |-> NoCatalog, pages |-> ps] :
                    ps \in TextPages}
    /\ raw_url = DefaultBase
    /\ base_url = DefaultBase
    /\ homepage_soup = Soup(EmptyDoc)
    /\ pc = "about_us_text"
    /\ fetched = <<DefaultBase>>
    /\ page = 1
    /\ all_products = <<>>
    /\ path_i = 1
    /\ faqs = <<>>
    /\ result = <<>>
    /\ flat_data = <<>>

SpecText == InitText /\ [][TextStep]_vars

\* Link elements of the homepage for get_important_links.
ImportantLinkElems ==
    {Anchor("/pages/contact", "Contact"),
     Anchor("/pages/help-center", " Help "),
     Anchor("/blogs/news", "Journal"),
     Anchor("/policies/x", "Privacy Policy"),
     Anchor("/Pages/Returns", "RETURNS"),
     Link("a", FALSE, "", "Support")}

HomeWith(doc) == [home |-> Html(doc), catalog |-> NoCatalog, pages |-> NoPages]

\* get_important_links alone, on every homepage of at most MaxLinks links.
InitLinks ==
    /\ store \in {HomeWith([body |-> "", links |-> ls]) :
                    ls \in SeqsUpTo(ImportantLinkElems, MaxLinks)}
    /\ raw_url = DefaultBase
    /\ base_url = DefaultBase
    /\ homepage_soup = FetchPage(store.home)
    /\ pc = "important_links"
    /\ fetched = <<DefaultBase>>
    /\ page = 1
    /\ all_products = <<>>
    /\ path_i = 1
    /\ faqs = <<>>
    /\ result = <<>>
    /\ flat_data = <<>>

SpecLinks == InitLinks /\ [][ImportantLinksStep]_vars

Nested(text) == [found |-> TRUE, text |-> text]
NotNested == [found |-> FALSE, text |-> ""]

\* Link elements of the homepage for get_hero_products.
HeroLinkElems ==
    {Anchor("/products/blue-shirt", "Blue"),
     [tag |-> "a", has_href |-> TRUE, href |-> "/products/blue-shirt?variant=2",
      text |-> "Blue Shirt Deluxe $20", classes |-> {"product-card__link"},
      inside |-> <<"product-item__info">>,
      title_tag |-> Nested(" Blue Shirt Deluxe "), price_tag |-> Nested("$20")],
     [tag |-> "div", has_href |-> TRUE, href |-> "/products/red-hat",
      text |-> "Red Hat", classes |-> {"product-card__link"}, inside |-> <<>>,
      title_tag |-> Nested("The Red Hat"), price_tag |-> NotNested],
     [tag |-> "a", has_href |-> TRUE, href |-> "/collections/all",
      text |-> "All", classes |-> {}, inside |-> <<"grid__item", "product-info">>,
      title_tag |-> NotNested, price_tag |-> NotNested],
     Anchor("/products/", "Products"),
     [tag |-> "a", has_href |-> TRUE, href |-> "https://other.example/products/red-hat#reviews",
      text |-> "Reviews", classes |-> {"grid-view-item__link"}, inside |-> <<>>,
      title_tag |-> NotNested, price_tag |-> Nested("$5")]}

\* get_hero_products alone, on every homepage of at most MaxLinks links.
InitHero ==
    /\ store \in {HomeWith([body |-> "", links |-> ls]) :
                    ls \in SeqsUpTo(HeroLinkElems, MaxLinks)}
    /\ raw_url = DefaultBase
    /\ base_url = DefaultBase
    /\ homepage_soup = FetchPage(store.home)
    /\ pc = "hero_products"
    /\ fetched = <<DefaultBase>>
    /\ page = 1
    /\ all_products = <<>>
    /\ path_i = 1
    /\ faqs = <<>>
    /\ result = <<>>
    /\ flat_data = <<>>

SpecHero == InitHero /\ [][HeroProductsStep]_vars

\* Link elements of the homepage for get_social_media_links.
SocialLinkElems ==
    {Anchor("https://Facebook.com/Shop", "Facebook"),
     Anchor("/go?to=facebook.com", "FB"),
     Anchor("https://x.com/shop", "X"),
     Anchor("https://twitter.com/s?via=instagram.com", "Both"),
     Anchor("/pages/contact", "instagram.com"),
     Link("a", FALSE, "", "wa.me")}

\* get_social_media_links alone, on every homepage of at most MaxLinks links.
InitSocial ==
    /\ store \in {HomeWith([body |-> "", links |-> ls]) :
                    ls \in SeqsUpTo(SocialLinkElems, MaxLinks)}
    /\ raw_url = DefaultBase
    /\ base_url = DefaultBase
    /\ homepage_soup = FetchPage(store.home)
    /\ pc = "social_media_links"
    /\ fetched = <<DefaultBase>>
    /\ page = 1
    /\ all_products = <<>>
    /\ path_i = 1
    /\ faqs = <<>>
    /\ result = <<>>
    /\ flat_data = <<>>

SpecSocial == InitSocial /\ [][SocialLinksStep]_vars

\* ---------------------------------------------------------- a whole session
SessionHomes ==
    {TransportError, HttpError, Html(EmptyDoc),
     Html([body |-> "mail a@b.com or call 9876543210 ",
           links |-> <<Anchor("https://Facebook.com/shop", "Facebook"),
                       Anchor("/go?to=Instagram.com", "Instagram"),
                       Anchor("/products/blue-shirt", "Blue"),
                       Anchor("/pages/contact", "Contact")>>])}

SessionCatalogs ==
    {[n \in 1..MaxPages |-> IF n = 1 THEN JsonProducts(<<"p1", "p2">>) ELSE JsonProducts(<<>>)],
     [n \in 1..MaxPages |-> IF n = 1 THEN JsonNonObject ELSE JsonNoProducts],
     [n \in 1..MaxPages |-> IF n < MaxPages THEN JsonProducts(<<"p3">>) ELSE NotJson],
     NoCatalog}

SessionPages ==
    {NoPages,
     [p \in AllPaths |->
        IF p \in {"/pages/about-us", "/policies/refund-policy"}
        THEN Html(<<[tag |-> "p", text |-> "About  us\n since 2020 "]>>)
        ELSE IF p = "/pages/faqs"
        THEN Html(<<[tag |-> "h3", text |-> "What is it?"], [tag |-> "p", text |-> "An answer."]>>)
        ELSE HttpError],
     [p \in AllPaths |->
        IF p \in {"/pages/about", "/policies/return-policy"}
        THEN Html(<<[tag |-> "p", text |-> "Not found or could not parse."]>>)
        ELSE IF p = "/pages/faq"
        THEN Html(<<[tag |-> "details", text |-> "Other answer.", summary |-> "What is it?"]>>)
        ELSE Html(<<[tag |-> "nav", text |-> "Menu"]>>)]}

RawUrls == {"shop.example/", "https://shop.example", "http://shop.example//"}

\* A session from the constructor call to run_all's return.
Init ==
    /\ store \in {[home |-> h, catalog |-> c, pages |-> ps] :
                    h \in SessionHomes, c \in SessionCatalogs, ps \in SessionPages}
    /\ raw_url \in RawUrls
    /\ base_url = ""
    /\ homepage_soup = NoneSoup
    /\ pc = "new"
    /\ fetched = <<>>
    /\ page = 1
    /\ all_products = <<>>
    /\ path_i = 1
    /\ faqs = <<>>
    /\ result = <<>>
    /\ flat_data = <<>>

Next ==
    \/ Construct
    \/ RunAll
    \/ CatalogStep
    \/ HeroProductsStep
    \/ SocialLinksStep
    \/ ContactInfoStep
    \/ ImportantLinksStep
    \/ TextStep
    \/ FaqStep

Spec == Init /\ [][Next]_vars

\* A request to /scrape-csv/: the session, then the flattening of its result.
NextCsv ==
    \/ Construct
    \/ RunAll
    \/ CatalogStep
    \/ HeroProductsStep
    \/ SocialLinksStep
    \/ ContactInfoStep
    \/ ImportantLinksStep
    \/ TextStep
    \/ FaqStep
    \/ ScrapeStoreCsv

SpecCsv == Init /\ [][NextCsv]_vars

\* ------------------------------------------- the extractors in any order
\* The fields of the aggregate not yet evaluated.
Pending == {FieldOrder[i] : i \in 1..Len(FieldOrder)} \ DOMAIN result

\* The fields a caller may evaluate next: any pending one, the four calls of
\* get_page_text being kept in their relative order.
Schedulable ==
    {f \in Pending :
        f \in DOMAIN TextPaths =>
            \A i, j \in 1..Len(FieldOrder) :
                (FieldOrder[j] = f /\ i < j /\ FieldOrder[i] \in DOMAIN TextPaths)
                    => FieldOrder[i] \in DOMAIN result}

\* Between two extractor calls, the caller goes on with any field that is
\* still to be evaluated instead of the next one of run_all's dictionary
\* (lines 304-313 taken in another order).
Reschedule ==
    /\ pc \in {FieldOrder[i] : i \in 1..Len(FieldOrder)} \cup {"done"}
    /\ path_i = 1
    /\ pc = "product_catalog" => page = 1
    /\ IF Pending = {} THEN pc # "done" /\ pc' = "done" ELSE pc' \in Schedulable \ {pc}
    /\ UNCHANGED <<store, flat_data, raw_url, base_url, homepage_soup, fetched, page,
                   all_products, path_i, faqs, result>>

\* The extractor calls of run_all, each made once, in any order.
NextAnyOrder ==
    \/ Reschedule
    \/ (pc \notin DOMAIN result /\ CatalogStep)
    \/ (pc \notin DOMAIN result /\ HeroProductsStep)
    \/ (pc \notin DOMAIN result /\ SocialLinksStep)
    \/ (pc \notin DOMAIN result /\ ContactInfoStep)
    \/ (pc \notin DOMAIN result /\ ImportantLinksStep)
    \/ (pc \notin DOMAIN result /\ TextStep)
    \/ (pc \notin DOMAIN result /\ FaqStep)

\* A session whose homepage was fetched, at the point where run_all starts
\* to evaluate its fields.
InitAnyOrder ==
    /\ store \in {[home |-> h,
                   catalog |-> [n \in 1..MaxPages |->
                                  IF n = 1 THEN JsonProducts(<<"p1", "p2">>)
                                  ELSE JsonProducts(<<>>)],
                   pages |-> ps] :
                    h \in SessionHomes \ {TransportError, HttpError, Html(EmptyDoc)},
                    ps \in {q \in SessionPages : Failed(q["/pages/about"])
                                                    /\ ~Failed(q["/pages/about-us"])}}
    /\ raw_url = "shop.example/"
    /\ base_url = NormalizeBaseUrl(raw_url)
    /\ homepage_soup = FetchPage(store.home)
    /\ pc = "product_catalog"
    /\ fetched = <<base_url>>
    /\ page = 1
    /\ all_products = <<>>
    /\ path_i = 1
    /\ faqs = <<>>
    /\ result = <<>>
    /\ flat_data = <<>>

SpecAnyOrder == InitAnyOrder /\ [][NextAnyOrder]_vars

RECURSIVE JoinAll(_)
JoinAll(tokens) == IF tokens = <<>> THEN "" ELSE Head(tokens) \o JoinAll(Tail(tokens))

\* Fragments of homepage text; a homepage text is at most MaxTokens of them
\* in a row.
TextTokens ==
    {"contact me at a@b.com", " or call ", "987-654-3210", "a@b.com 9876543210 ",
     "+91 9876543210", "9876543210"}

\* get_contact_info alone, on every such homepage text.
InitContact ==
    /\ store \in {HomeWith([body |-> JoinAll(ts), links |-> <<>>]) :
                    ts \in SeqsUpTo(TextTokens, MaxTokens)}
    /\ raw_url = DefaultBase
    /\ base_url = DefaultBase
    /\ homepage_soup = FetchPage(store.home)
    /\ pc = "contact_info"
    /\ fetched = <<DefaultBase>>
    /\ page = 1
    /\ all_products = <<>>
    /\ path_i = 1
    /\ faqs = <<>>
    /\ result = <<>>
    /\ flat_data = <<>>

SpecContact == InitContact /\ [][ContactInfoStep]_vars

\* Sibling elements of a FAQ page, and the pages built from them.
FaqElems ==
    {[tag |-> "h3", text |-> "What is it?"],
     [tag |-> "p", text |-> " An answer. "],
     [tag |-> "details", text |-> "Other answer.", summary |-> "What is it?"],
     [tag |-> "h2", text |-> " FAQ "],
     [tag |-> "pre", text |-> "Preformatted."]}

FaqFirstResponses ==
    {TransportError} \cup {Html(d) : d \in SeqsUpTo(FaqElems, MaxFaqElems)}

FaqSecondResponses ==
    {TransportError,
     Html(<<[tag |-> "h2", text |-> " FAQ "]>>),
     Html(<<[tag |-> "details", text |-> "Second page.", summary |-> "What is it?"]>>)}

FaqThirdResponses ==
    {HttpError,
     Html(<<[tag |-> "h4", text |-> "Shipping?"], [tag |-> "div", text |-> "Third page."]>>)}

FaqPages ==
    {[p \in AllPaths |->
        IF p = FaqPaths[1] THEN a
        ELSE IF p = FaqPaths[2] THEN b
        ELSE IF p = FaqPaths[3] THEN c
        ELSE TransportError] :
            a \in FaqFirstResponses, b \in FaqSecondResponses, c \in FaqThirdResponses}

\* get_faqs alone, on the FAQ pages above.
InitFaq ==
    /\ store \in {[home |-> Html(EmptyDoc), catalog |-> NoCatalog, pages |-> ps] :
                    ps \in FaqPages}
    /\ raw_url = DefaultBase
    /\ base_url = DefaultBase
    /\ homepage_soup = Soup(EmptyDoc)
    /\ pc = "faq_page"
    /\ fetched = <<DefaultBase>>
    /\ page = 1
    /\ all_products = <<>>
    /\ path_i = 1
    /\ faqs = <<>>
    /\ result = <<>>
    /\ flat_data = <<>>

SpecFaq == InitFaq /\ [][FaqStep]_vars

====
